---- MODULE Spec2Model ----
(***************************************************************************)
(* Model of workflow/find_in_history_archive.py: the clipboard-archive      *)
(* search of an Alfred workflow.  The script normalises a keyword           *)
(* (convert_dakuten), runs one SQL LIKE query against the archive           *)
(* (search_clipboard), formats every fetched row as a result item, sorts    *)
(* the items by timestamp, drops the timestamp and writes a JSON envelope.  *)
(*                                                                         *)
(* Text is a sequence of code points.  A code point is written as a         *)
(* one-character string ("a", "\n") or, for kana, as its name "U+304B".     *)
(* Python values are tagged records: PyNone, PyInt(n), PyStr(text).         *)
(***************************************************************************)
EXTENDS Integers, Sequences, FiniteSets, TLC

VARIABLES
    pc,             \* position in the script
    keyword,        \* sys.argv[1], a text
    db,             \* the archive at sys.argv[2]
    tz,             \* the local UTC offset used by datetime.fromtimestamp
    conn,           \* "none", "open" or "closed": the sqlite3 connection
    closes,         \* how many times conn.close() ran
    results,        \* c.fetchall(): the fetched rows
    output,         \* the list search_clipboard builds and returns
    result_bridge,  \* the sorted list of __main__
    popped,         \* how many items of result_bridge the pop loop has visited
    stdout,         \* what was written to sys.stdout (<<>> before the write)
    behind,         \* for each item of output / result_bridge, the index in
                    \* db.rows of the row it was made from (history variable)
    cd_in,          \* argument of a direct call of convert_dakuten
    cd_out          \* what that call returned

vars == <<pc, keyword, db, tz, conn, closes, results, output, result_bridge,
          popped, stdout, behind, cd_in, cd_out>>

-----------------------------------------------------------------------------
(* Bounds of the model *)

\* largest number of rows in the archive
MaxRows == 2
\* longest text handed directly to convert_dakuten
MaxKwLen == 2

(* Program constants *)

\* item[:120] if len(item) > 120
TitleMax == 120
\* ts + 978307200: seconds from the Unix epoch to 2001-01-01T00:00:00Z
EpochOffset == 978307200

-----------------------------------------------------------------------------
(* Python values *)

PyNone == [type |-> "NoneType"]
PyInt(n) == [type |-> "int", val |-> n]
PyStr(s) == [type |-> "str", val |-> s]

\* the code points of a string literal
Chars(s) == [i \in 1..Len(s) |-> SubSeq(s, i, i)]

Digits == Chars("0123456789")

\* str(n) for an int n >= 0
RECURSIVE IntToStr(_)
IntToStr(n) ==
    IF n < 10 THEN <<Digits[n + 1]>>
    ELSE IntToStr(n \div 10) \o <<Digits[(n % 10) + 1]>>

\* str(v) as the f-string applies it to a column value
PyFormat(v) ==
    CASE v.type = "NoneType" -> Chars("None")
      [] v.type = "int" -> IntToStr(v.val)
      [] v.type = "str" -> v.val

\* s.count(ch)
Count(s, ch) == Cardinality({i \in 1..Len(s) : s[i] = ch})

\* sub in s, literally and case-sensitively
Contains(s, sub) ==
    \E i \in 0..(Len(s) - Len(sub)) : SubSeq(s, i + 1, i + Len(sub)) = sub

StartsWith(s, p) == Len(p) <= Len(s) /\ SubSeq(s, 1, Len(p)) = p

-----------------------------------------------------------------------------
(* convert_dakuten: re.sub of the spacing sound marks, then NFC *)

KA == "U+304B"
GA == "U+304C"
HA == "U+306F"
BA == "U+3070"
PA == "U+3071"
CombDakuten == "U+3099"
CombHandakuten == "U+309A"
SpacingDakuten == "U+309B"
SpacingHandakuten == "U+309C"

\* the canonical decompositions among the kana of the model
Decompositions ==
    {<<GA, KA, CombDakuten>>, <<BA, HA, CombDakuten>>, <<PA, HA, CombHandakuten>>}

\* canonical combining class: 8 for the two combining sound marks, else 0
CombiningClass(ch) == IF ch \in {CombDakuten, CombHandakuten} THEN 8 ELSE 0

\* re.sub(from, to, s) for a one-character pattern: replace every occurrence
ReSub(from, to, s) == [i \in 1..Len(s) |-> IF s[i] = from THEN to ELSE s[i]]

\* canonical decomposition (NFD) of a text
RECURSIVE Decompose(_)
Decompose(s) ==
    IF s = <<>> THEN <<>>
    ELSE LET d == {t \in Decompositions : t[1] = Head(s)}
         IN (IF d = {} THEN <<Head(s)>>
             ELSE LET t == CHOOSE t \in d : TRUE IN <<t[2], t[3]>>)
            \o Decompose(Tail(s))

\* canonical composition of a decomposed text: s from position i on, out the
\* text composed so far, starter the position in out of the last starter (0 if
\* none), lastcc the combining class of the last character appended after
\* that starter (-1 if none)
RECURSIVE ComposeFrom(_, _, _, _, _)
ComposeFrom(s, i, out, starter, lastcc) ==
    IF i > Len(s) THEN out
    ELSE LET ch == s[i]
             cc == CombiningClass(ch)
             pair == IF starter = 0 THEN {}
                     ELSE {t \in Decompositions : t[2] = out[starter] /\ t[3] = ch}
         IN IF pair # {} /\ (lastcc = -1 \/ lastcc < cc)
            THEN ComposeFrom(s, i + 1,
                             [out EXCEPT ![starter] = (CHOOSE t \in pair : TRUE)[1]],
                             starter, lastcc)
            ELSE IF cc = 0
            THEN ComposeFrom(s, i + 1, Append(out, ch), Len(out) + 1, -1)
            ELSE ComposeFrom(s, i + 1, Append(out, ch), starter, cc)

\* unicodedata.normalize("NFC", s)
NFC(s) == ComposeFrom(Decompose(s), 1, <<>>, 0, -1)

\* NFC alone, the spacing sound marks left as they are
NormalizeWithoutSub(s) == NFC(s)

\* lines 14-16 on a text
Normalize(s) ==
    NFC(ReSub(SpacingHandakuten, CombHandakuten,
              ReSub(SpacingDakuten, CombDakuten, s)))

\* convert_dakuten(chars) on a Python value: a str is normalised and returned;
\* for anything else the body is `pass` and the function returns None
convert_dakuten(chars) ==
    IF chars.type # "str" THEN PyNone ELSE PyStr(Normalize(chars.val))

-----------------------------------------------------------------------------
(* The query: item LIKE '%' + keyword + '%' *)

AsciiUpper == Chars("ABCDEFGHIJKLMNOPQRSTUVWXYZ")
AsciiLower == Chars("abcdefghijklmnopqrstuvwxyz")

\* SQLite's LIKE folds the case of ASCII letters only
Fold(ch) ==
    IF \E i \in 1..26 : AsciiUpper[i] = ch
    THEN AsciiLower[CHOOSE i \in 1..26 : AsciiUpper[i] = ch]
    ELSE ch

\* does p from position i on match s from position j on, % matching any run
\* of characters and _ any one character
RECURSIVE LikeAt(_, _, _, _)
LikeAt(p, i, s, j) ==
    IF i > Len(p) THEN j > Len(s)
    ELSE IF p[i] = "%"
    THEN i = Len(p) \/ \E k \in j..(Len(s) + 1) : LikeAt(p, i + 1, s, k)
    ELSE /\ j <= Len(s)
         /\ (p[i] = "_" \/ Fold(p[i]) = Fold(s[j]))
         /\ LikeAt(p, i + 1, s, j + 1)

\* s LIKE p
Like(s, p) == LikeAt(p, 1, s, 1)

\* a pattern that lost its leading '%'
PrefixPattern(kw) == kw \o <<"%">>

\* '%' + convert_dakuten(keyword) + '%'
LikePattern(kw) == <<"%">> \o kw \o <<"%">>

\* a SELECT that lost its WHERE clause
SelectAll(rows, kw) == [r \in (1..Len(rows)) |-> r]

\* the indices of the rows the SELECT returns, in table order
RECURSIVE SelectFrom(_, _, _)
SelectFrom(rows, kw, r) ==
    IF r > Len(rows) THEN <<>>
    ELSE (IF Like(rows[r].item, LikePattern(kw)) THEN <<r>> ELSE <<>>)
         \o SelectFrom(rows, kw, r + 1)

Select(rows, kw) == SelectFrom(rows, kw, 1)

-----------------------------------------------------------------------------
(* Formatting of one fetched row *)

\* n as at least two digits, as %m %d %M %S print it
TwoDigits(n) == IF n < 10 THEN <<"0">> \o IntToStr(n) ELSE IntToStr(n)

\* n as at least four digits, as %Y prints it
FourDigits(n) ==
    IF n < 10 THEN Chars("000") \o IntToStr(n)
    ELSE IF n < 100 THEN Chars("00") \o IntToStr(n)
    ELSE IF n < 1000 THEN <<"0">> \o IntToStr(n)
    ELSE IntToStr(n)

\* the proleptic Gregorian date <<year, month, day>> of a day number counted
\* from 1970-01-01, as the C library's localtime computes it
CivilFromDays(days) ==
    LET z == days + 719468
        era == z \div 146097
        doe == z - era * 146097
        yoe == (doe - (doe \div 1460) + (doe \div 36524) - (doe \div 146096)) \div 365
        doy == doe - (365 * yoe + (yoe \div 4) - (yoe \div 100))
        mp == (5 * doy + 2) \div 153
        d == doy - ((153 * mp + 2) \div 5) + 1
        m == IF mp < 10 THEN mp + 3 ELSE mp - 9
        y == yoe + era * 400 + (IF m <= 2 THEN 1 ELSE 0)
    IN <<y, m, d>>

\* datetime.datetime.fromtimestamp(unix).strftime('%Y-%m-%d %-I:%M:%S %p')
\* in a zone off seconds east of UTC
StrfTime(unix, off) ==
    LET local == unix + off
        date == CivilFromDays(local \div 86400)
        secs == local % 86400
        hour == secs \div 3600
        hour12 == IF hour % 12 = 0 THEN 12 ELSE hour % 12
    IN FourDigits(date[1]) \o <<"-">> \o TwoDigits(date[2]) \o <<"-">>
       \o TwoDigits(date[3]) \o <<" ">> \o IntToStr(hour12) \o <<":">>
       \o TwoDigits((secs % 3600) \div 60) \o <<":">> \o TwoDigits(secs % 60)
       \o <<" ">> \o (IF hour < 12 THEN Chars("AM") ELSE Chars("PM"))

\* a slice that is one character short
ShortTitle(item) ==
    IF Len(item) > TitleMax THEN SubSeq(item, 1, TitleMax - 1) ELSE item

\* title = item[:120] if len(item) > 120 else item
Title(item) ==
    IF Len(item) > TitleMax THEN SubSeq(item, 1, TitleMax) ELSE item

\* a line count that forgot the + 1
LinesPrefixOffByOne(item) ==
    IF Count(item, "\n") # 0
    THEN IntToStr(Count(item, "\n")) \o Chars(" lines, ")
    ELSE <<>>

\* str(item.count('\n') + 1) + " lines, " if item.count('\n') else ""
LinesPrefix(item) ==
    IF Count(item, "\n") # 0
    THEN IntToStr(Count(item, "\n") + 1) \o Chars(" lines, ")
    ELSE <<>>

\* the f-string of line 34
Subtitle(row, off) ==
    LinesPrefix(row.item) \o IntToStr(Len(row.item))
    \o Chars(" characters, copied at ") \o StrfTime(row.ts + EpochOffset, off)
    \o Chars(" from ") \o PyFormat(row.app)

\* the dict appended to output for one fetched row
ResultItem(row, off) ==
    [title |-> Title(row.item),
     arg |-> row.item,
     timestamp |-> row.ts,
     subtitle |-> Subtitle(row, off),
     icon |-> [path |-> row.apppath, type |-> "fileicon"]]

-----------------------------------------------------------------------------
(* __main__: sort and pop *)

\* x inserted into the order ord (positions of list) behind every position
\* whose timestamp is >= that of x: a stable sort, largest timestamp first
RECURSIVE InsertDesc(_, _, _)
InsertDesc(list, ord, x) ==
    IF ord = <<>> THEN <<x>>
    ELSE IF list[Head(ord)].timestamp >= list[x].timestamp
    THEN <<Head(ord)>> \o InsertDesc(list, Tail(ord), x)
    ELSE <<x>> \o ord

RECURSIVE SortDescFrom(_, _, _)
SortDescFrom(list, ord, x) ==
    IF x > Len(list) THEN ord
    ELSE SortDescFrom(list, InsertDesc(list, ord, x), x + 1)

\* a sort that lost reverse=True
RECURSIVE InsertAsc(_, _, _)
InsertAsc(list, ord, x) ==
    IF ord = <<>> THEN <<x>>
    ELSE IF list[Head(ord)].timestamp <= list[x].timestamp
    THEN <<Head(ord)>> \o InsertAsc(list, Tail(ord), x)
    ELSE <<x>> \o ord

RECURSIVE SortAscFrom(_, _, _)
SortAscFrom(list, ord, x) ==
    IF x > Len(list) THEN ord
    ELSE SortAscFrom(list, InsertAsc(list, ord, x), x + 1)

AscendingOrder(list) == SortAscFrom(list, <<>>, 1)

\* the order sorted(list, key=lambda x: x['timestamp'], reverse=True) puts the
\* positions of list in
SortedOrder(list) == SortDescFrom(list, <<>>, 1)

\* a pop of a key the dict does not hold, with a default
PopNothing(d) == d

\* dict_.pop('timestamp')
PopTimestamp(d) == [k \in (DOMAIN d) \ {"timestamp"} |-> d[k]]

-----------------------------------------------------------------------------
(* The inputs: keywords, archives, time zones *)

\* n times the letter x
Pad(n) == [i \in 1..n |-> "x"]

\* contents of clipboard entries: mixed case and precomposed kana over two
\* lines; decomposed kana in exactly TitleMax characters; more than TitleMax
\* characters ending in a line break
Contents ==
    {<<"a", "B", "\n", GA, PA>>,
     <<KA, CombDakuten>> \o Pad(TitleMax - 2),
     Pad(TitleMax) \o <<"\n">>}

\* ts column: seconds since 2001-01-01T00:00:00Z
Timestamps == {700000000, 700043200}

\* apppath and app columns: both NULL, or both set
SourceApps ==
    {[apppath |-> PyNone, app |-> PyNone],
     [apppath |-> PyStr(Chars("/Notes.app")), app |-> PyStr(Chars("Notes"))]}

Rows ==
    {[item |-> c, ts |-> t, apppath |-> a.apppath, app |-> a.app] :
        c \in Contents, t \in Timestamps, a \in SourceApps}

\* tables of at most n rows
RECURSIVE Tables(_)
Tables(n) ==
    IF n = 0 THEN {<<>>}
    ELSE LET shorter == Tables(n - 1)
         IN shorter \cup {Append(t, r) : t \in {u \in shorter : Len(u) = n - 1}, r \in Rows}

\* an archive: a path that cannot be opened, a database without the clipboard
\* table, or a clipboard table of at most MaxRows rows
Archives ==
    {[openable |-> FALSE, hasTable |-> FALSE, rows |-> <<>>],
     [openable |-> TRUE, hasTable |-> FALSE, rows |-> <<>>]}
    \cup {[openable |-> TRUE, hasTable |-> TRUE, rows |-> t] : t \in Tables(MaxRows)}

\* keywords typed into the launcher
Keywords ==
    {<<>>, Chars("a"), Chars("AB"), Chars("_"), Chars("a%b"), Chars("\n"),
     Chars("z"), <<GA>>, <<KA, CombDakuten>>, <<KA, SpacingDakuten>>,
     <<HA, SpacingHandakuten>>}

\* local time zones, seconds east of UTC
UtcOffsets == {32400}

\* the characters of texts handed directly to convert_dakuten
KanaAlphabet ==
    {"a", KA, GA, HA, BA, PA, CombDakuten, CombHandakuten, SpacingDakuten,
     SpacingHandakuten}

\* texts over KanaAlphabet of at most n characters
RECURSIVE Texts(_)
Texts(n) ==
    IF n = 0 THEN {<<>>}
    ELSE LET shorter == Texts(n - 1)
         IN shorter \cup {Append(t, ch) : t \in {u \in shorter : Len(u) = n - 1}, ch \in KanaAlphabet}

\* arguments of a direct call of convert_dakuten: texts and values that are
\* not text
Arguments ==
    {PyStr(t) : t \in Texts(MaxKwLen)} \cup {PyNone, PyInt(0), PyInt(42)}

-----------------------------------------------------------------------------
(* The script *)

Init ==
    /\ pc = "start"
    /\ keyword \in Keywords
    /\ db \in Archives
    /\ tz \in UtcOffsets
    /\ conn = "none"
    /\ closes = 0
    /\ results = <<>>
    /\ output = <<>>
    /\ result_bridge = <<>>
    /\ popped = 0
    /\ stdout = <<>>
    /\ behind = <<>>
    /\ cd_in = PyNone
    /\ cd_out = <<>>

\* conn = sqlite3.connect(db_path); c = conn.cursor()
Connect ==
    /\ pc = "start"
    /\ IF db.openable
       THEN conn' = "open" /\ pc' = "connected"
       ELSE conn' = conn /\ pc' = "failed"
    /\ UNCHANGED <<keyword, db, tz, closes, results, output, result_bridge,
                   popped, stdout, behind, cd_in, cd_out>>

\* c.execute(...); results = c.fetchall(): a str + None concatenation or a
\* missing table raises, and the exception leaves search_clipboard and the
\* script
Execute ==
    /\ pc = "connected"
    /\ LET kw == convert_dakuten(PyStr(keyword))
       IN IF kw.type = "str" /\ db.hasTable
          THEN /\ behind' = Select(db.rows, kw.val)
               /\ results' = [i \in 1..Len(behind') |-> db.rows[behind'[i]]]
               /\ pc' = "fetched"
          ELSE /\ pc' = "failed"
               /\ UNCHANGED <<results, behind>>
    /\ UNCHANGED <<keyword, db, tz, conn, closes, output, result_bridge,
                   popped, stdout, cd_in, cd_out>>

\* one pass of `for item, ts, apppath, app in results`
FormatRow ==
    /\ pc = "fetched"
    /\ Len(output) < Len(results)
    /\ output' = Append(output, ResultItem(results[Len(output) + 1], tz))
    /\ UNCHANGED <<pc, keyword, db, tz, conn, closes, results, result_bridge,
                   popped, stdout, behind, cd_in, cd_out>>

\* conn.close(); return output
Close ==
    /\ pc = "fetched"
    /\ Len(output) = Len(results)
    /\ conn' = "closed"
    /\ closes' = closes + 1
    /\ pc' = "returned"
    /\ UNCHANGED <<keyword, db, tz, results, output, result_bridge, popped,
                   stdout, behind, cd_in, cd_out>>

\* result_bridge = sorted(results, key=lambda x: x['timestamp'], reverse=True)
Sort ==
    /\ pc = "returned"
    /\ LET ord == SortedOrder(output)
       IN /\ result_bridge' = [i \in 1..Len(ord) |-> output[ord[i]]]
          /\ behind' = [i \in 1..Len(ord) |-> behind[ord[i]]]
    /\ pc' = "sorted"
    /\ UNCHANGED <<keyword, db, tz, conn, closes, results, output, popped,
                   stdout, cd_in, cd_out>>

\* one pass of `for dict_ in result_bridge: dict_.pop('timestamp')`
Pop ==
    /\ pc = "sorted"
    /\ popped < Len(result_bridge)
    /\ result_bridge' =
           [result_bridge EXCEPT ![popped + 1] = PopTimestamp(result_bridge[popped + 1])]
    /\ popped' = popped + 1
    /\ UNCHANGED <<pc, keyword, db, tz, conn, closes, results, output, stdout,
                   behind, cd_in, cd_out>>

\* response_dict['items'] = result_bridge; sys.stdout.write(json.dumps(...))
Write ==
    /\ pc = "sorted"
    /\ popped = Len(result_bridge)
    /\ stdout' = <<[skipknowledge |-> TRUE, items |-> result_bridge]>>
    /\ pc' = "done"
    /\ UNCHANGED <<keyword, db, tz, conn, closes, results, output,
                   result_bridge, popped, behind, cd_in, cd_out>>

Next == Connect \/ Execute \/ FormatRow \/ Close \/ Sort \/ Pop \/ Write

Spec == Init /\ [][Next]_vars

-----------------------------------------------------------------------------
(* convert_dakuten called on its own *)

InitCall ==
    /\ pc = "call"
    /\ cd_in \in Arguments
    /\ cd_out = <<>>
    /\ keyword = <<>>
    /\ db = [openable |-> FALSE, hasTable |-> FALSE, rows |-> <<>>]
    /\ tz = 0
    /\ conn = "none"
    /\ closes = 0
    /\ results = <<>>
    /\ output = <<>>
    /\ result_bridge = <<>>
    /\ popped = 0
    /\ stdout = <<>>
    /\ behind = <<>>

\* convert_dakuten(cd_in) returns
Call ==
    /\ pc = "call"
    /\ cd_out' = <<convert_dakuten(cd_in)>>
    /\ pc' = "return"
    /\ UNCHANGED <<keyword, db, tz, conn, closes, results, output,
                   result_bridge, popped, stdout, behind, cd_in>>

NextCall == Call

SpecCall == InitCall /\ [][NextCall]_vars

-----------------------------------------------------------------------------
(* What the properties are stated over *)

\* the items of the envelope written to stdout
Items == stdout[1].items

\* the row of the archive behind the i-th emitted item
RowBehind(i) == db.rows[behind[i]]

\* the keyword after normalisation
NormalizedKeyword == Normalize(keyword)

Written == stdout # <<>>

\* does seg occur in s right after position i, up to ASCII case, an _ of seg
\* standing for any one character
OccursAt(s, seg, i) ==
    /\ i + Len(seg) <= Len(s)
    /\ \A j \in 1..Len(seg) : seg[j] = "_" \/ Fold(seg[j]) = Fold(s[i + j])

\* the pieces of kw between its % characters, from position i on, cur the
\* piece being read
RECURSIVE Pieces(_, _, _)
Pieces(kw, i, cur) ==
    IF i > Len(kw) THEN <<cur>>
    ELSE IF kw[i] = "%" THEN <<cur>> \o Pieces(kw, i + 1, <<>>)
    ELSE Pieces(kw, i + 1, Append(cur, kw[i]))

\* do the pieces occur in s in this order, without overlap, after position i
RECURSIVE OccurInOrder(_, _, _)
OccurInOrder(s, pieces, i) ==
    IF pieces = <<>> THEN TRUE
    ELSE LET at == {k \in i..Len(s) : OccursAt(s, Head(pieces), k)}
         IN at # {} /\
            OccurInOrder(s, Tail(pieces),
                         (CHOOSE k \in at : \A m \in at : k <= m) + Len(Head(pieces)))

\* s holds kw as SQL LIKE '%kw%' understands it: up to ASCII case, _ standing
\* for any one character and % for any run of characters
HoldsLoosely(s, kw) == OccurInOrder(s, Pieces(kw, 1, <<>>), 0)

BaseKana == {t[2] : t \in Decompositions}
SoundMarks == {CombDakuten, CombHandakuten, SpacingDakuten, SpacingHandakuten}
CombiningOf(m) ==
    IF m = SpacingDakuten THEN CombDakuten
    ELSE IF m = SpacingHandakuten THEN CombHandakuten ELSE m

\* position i of s is a base kana followed by a sound mark it composes with
PairAt(s, i) ==
    /\ i < Len(s)
    /\ \E t \in Decompositions : t[2] = s[i] /\ t[3] = CombiningOf(s[i + 1])

\* s with every base kana + sound mark pair written as the precomposed kana
Precomposed(s) ==
    LET kept == SelectSeq([i \in 1..Len(s) |-> i],
                          LAMBDA i : ~(i > 1 /\ PairAt(s, i - 1)))
    IN [k \in 1..Len(kept) |->
          IF PairAt(s, kept[k])
          THEN (CHOOSE t \in Decompositions :
                    t[2] = s[kept[k]] /\ t[3] = CombiningOf(s[kept[k] + 1]))[1]
          ELSE s[kept[k]]]

\* a keyword of kana only, each sound mark right behind a base kana it
\* composes with
KanaVariant(kw) ==
    /\ kw # <<>>
    /\ \A i \in 1..Len(kw) :
          \/ kw[i] \in BaseKana \cup {t[1] : t \in Decompositions}
          \/ kw[i] \in SoundMarks /\ i > 1 /\ PairAt(kw, i - 1)

-----------------------------------------------------------------------------
(* Properties *)

\* C1 as stated: every emitted item's content holds the normalised keyword as
\* a literal, case-sensitive substring.
C1_LiteralSound ==
    Written => \A i \in 1..Len(Items) : Contains(Items[i].arg, NormalizedKeyword)

\* C1 as amended: every emitted item's content holds the normalised keyword as
\* SQL LIKE understands it: up to the case of ASCII letters, with an _ of the
\* keyword standing for any one character and a % for any run of characters.
C1_LikeSound ==
    Written => \A i \in 1..Len(Items) : HoldsLoosely(Items[i].arg, NormalizedKeyword)

\* an item was emitted whose content holds the keyword only loosely
C1_Witness ==
    /\ Written
    /\ keyword # <<>>
    /\ \E i \in 1..Len(Items) : ~Contains(Items[i].arg, NormalizedKeyword)

\* C2: in the emitted items the timestamps of the rows behind them never
\* increase from one position to a later one.
C2_SortedDescending ==
    Written =>
        /\ \A i \in 1..Len(Items) : Items[i].arg = RowBehind(i).item
        /\ \A i, j \in 1..Len(Items) : i < j => RowBehind(i).ts >= RowBehind(j).ts

\* two items were emitted in the opposite of their table order
C2_Witness ==
    /\ Written
    /\ Len(Items) >= 2
    /\ behind[1] > behind[2]
    /\ RowBehind(1).ts > RowBehind(2).ts

\* C3: once the envelope is written no item holds a timestamp key; every item
\* holds title, arg and subtitle, and nothing else but icon.
C3_NoTimestamp ==
    Written =>
        \A i \in 1..Len(Items) :
            /\ "timestamp" \notin DOMAIN Items[i]
            /\ {"title", "arg", "subtitle"} \subseteq DOMAIN Items[i]
            /\ DOMAIN Items[i] \subseteq {"title", "arg", "subtitle", "icon"}

\* an envelope of several items was written, each of which held a timestamp
\* when search_clipboard returned
C3_Witness ==
    /\ Written
    /\ Len(Items) >= 2
    /\ \A i \in 1..Len(output) : "timestamp" \in DOMAIN output[i]

\* C4: every item's title has at most 120 characters, is a prefix of the
\* row's content, is the whole content when that has at most 120 characters
\* and its first 120 characters otherwise.
C4_Title ==
    /\ \A i \in 1..Len(output) :
          /\ Len(output[i].title) <= 120
          /\ StartsWith(results[i].item, output[i].title)
          /\ Len(results[i].item) <= 120 => output[i].title = results[i].item
          /\ Len(results[i].item) > 120 =>
                 output[i].title = SubSeq(results[i].item, 1, 120)
    /\ Written =>
          \A i \in 1..Len(Items) :
              /\ Len(Items[i].title) <= 120
              /\ StartsWith(RowBehind(i).item, Items[i].title)
              /\ Len(RowBehind(i).item) <= 120 => Items[i].title = RowBehind(i).item
              /\ Len(RowBehind(i).item) > 120 =>
                     Items[i].title = SubSeq(RowBehind(i).item, 1, 120)

\* contents of exactly 120 and of more than 120 characters were emitted
C4_Witness ==
    /\ Written
    /\ \E i \in 1..Len(Items) : Len(Items[i].arg) > 120
    /\ \E i \in 1..Len(Items) : Len(Items[i].arg) = 120

\* C5: an item's subtitle starts with "<N> lines, " exactly if the row's
\* content holds a line break, N then being the number of line breaks plus
\* one; otherwise it starts with "<M> characters, ", M the content's length.
C5_LinesPrefix ==
    Written =>
        \A i \in 1..Len(Items) :
            LET content == RowBehind(i).item
                breaks == Count(content, "\n")
                chars == IntToStr(Len(content)) \o Chars(" characters, ")
            IN /\ breaks > 0 =>
                      StartsWith(Items[i].subtitle,
                                 IntToStr(breaks + 1) \o Chars(" lines, ") \o chars)
               /\ breaks = 0 =>
                      /\ StartsWith(Items[i].subtitle, chars)
                      /\ \A n \in 0..(Len(content) + 1) :
                            ~StartsWith(Items[i].subtitle,
                                        IntToStr(n) \o Chars(" lines, "))

\* a content with a line break and one without were emitted
C5_Witness ==
    /\ Written
    /\ \E i \in 1..Len(Items) : Count(Items[i].arg, "\n") > 0
    /\ \E i \in 1..Len(Items) : Count(Items[i].arg, "\n") = 0

\* C6 as stated: an item made from a row without a source application name
\* has no " from " in its subtitle, and one made from a row without a source
\* application path has no icon.
C6_ConditionalSourceApp ==
    Written =>
        \A i \in 1..Len(Items) :
            /\ RowBehind(i).app = PyNone =>
                   ~Contains(Items[i].subtitle, Chars(" from "))
            /\ RowBehind(i).apppath = PyNone => "icon" \notin DOMAIN Items[i]

\* C7 as stated: a run that opened a connection and has left search_clipboard,
\* by return or by exception, has closed the connection exactly once.
C7_ClosedOnEveryExit ==
    (conn # "none" /\ pc \in {"failed", "returned", "sorted", "done"}) =>
        (conn = "closed" /\ closes = 1)

\* C8 as stated: a keyword and a content that are the same kana once both are
\* written precomposed match, whichever form each of them is stored in.
C8_AnyEncoding ==
    (Written /\ KanaVariant(keyword)) =>
        \A r \in 1..Len(db.rows) :
            Contains(Precomposed(db.rows[r].item), Precomposed(keyword)) =>
                \E i \in 1..Len(Items) : Items[i].arg = db.rows[r].item

\* C8 as amended: a kana keyword, written with sound marks of either kind or
\* precomposed, is searched for in its precomposed form, and the rows emitted
\* are those whose content, as stored, holds that precomposed form.
C8_KeywordEncoding ==
    (Written /\ KanaVariant(keyword)) =>
        /\ NormalizedKeyword = Precomposed(keyword)
        /\ \A r \in 1..Len(db.rows) :
              Contains(db.rows[r].item, Precomposed(keyword)) <=>
                  \E i \in 1..Len(Items) : Items[i].arg = db.rows[r].item

\* a keyword written with a sound mark found a row stored precomposed and
\* left out a row stored decomposed
C8_Witness ==
    /\ Written
    /\ KanaVariant(keyword)
    /\ \E k \in 1..Len(keyword) : keyword[k] \in SoundMarks
    /\ Len(Items) >= 1
    /\ \E r \in 1..Len(db.rows) :
          /\ Contains(db.rows[r].item, <<KA, CombDakuten>>)
          /\ \A i \in 1..Len(Items) : Items[i].arg # db.rows[r].item

\* C9 as stated: convert_dakuten returns an argument that is not text
\* unchanged.
C9_PassThrough ==
    (pc = "return" /\ cd_in.type # "str") => cd_out = <<cd_in>>

\* C10: every row whose content holds the normalised keyword literally is
\* emitted once, with its content as arg: the emitted items with that content
\* are as many as the rows with it, and the empty keyword emits as many items
\* as the table has rows.
C10_Complete ==
    Written =>
        /\ \A r \in 1..Len(db.rows) :
              Contains(db.rows[r].item, NormalizedKeyword) =>
                  Cardinality({i \in 1..Len(Items) : Items[i].arg = db.rows[r].item})
                      = Cardinality({q \in 1..Len(db.rows) :
                                         db.rows[q].item = db.rows[r].item})
        /\ keyword = <<>> => Len(Items) = Len(db.rows)

\* a keyword that is not empty found a row and left another out
C10_Witness ==
    /\ Written
    /\ keyword # <<>>
    /\ Len(Items) >= 1
    /\ Len(Items) < Len(db.rows)
    /\ \A i \in 1..Len(Items) : Contains(Items[i].arg, NormalizedKeyword)

====
